---- MODULE Spec2Model ----
(***************************************************************************)
(* Model of server.py: a Flask application with two routes.                *)
(*   home()              GET /                     (server.py 6-8)         *)
(*   get_balloons(hour)  GET /api/balloons/<hour>  (server.py 10-39)       *)
(*                                                                         *)
(* Text is modelled as a sequence of one-character strings, so that        *)
(* int(hour), the 02d formatting and the URL template are computed the way *)
(* the interpreter computes them.  The token "u0663" stands for the single *)
(* character U+0663 (ARABIC-INDIC DIGIT THREE), a non-ASCII decimal digit. *)
(***************************************************************************)
EXTENDS Integers, Sequences, FiniteSets, TLC

VARIABLES
    max_str_digits,     \* the interpreter's int<->str digit limit (0: no limit)
    net,                \* condition of the upstream during the run
    pc,                 \* pc[r]: position of request r in its handler
    route,              \* route[r]: the URL rule the request matched
    hour,               \* hour[r]: the raw <hour> path segment
    hour_int,           \* hour_int[r]: local of get_balloons
    upstream_url,       \* upstream_url[r]: local of get_balloons
    upstream_response,  \* upstream_response[r]: local of get_balloons
    exc,                \* exc[r]: the RequestException caught at line 30
    calls,              \* calls[r]: URLs passed to requests.get, in order
    response            \* response[r]: what the view function returned

vars == <<max_str_digits, net, pc, route, hour, hour_int, upstream_url,
          upstream_response, exc, calls, response>>

----------------------------------------------------------------------------
(* Bounds of the model *)

MaxLen == 3        \* longest enumerated <hour> segment, in characters
NReq == 2          \* requests in flight in the concurrent specification
SatDigits == 4     \* magnitudes of more significant digits are clamped

(* CPython's sys.int_info.default_max_str_digits, applied by int() at line 17 *)
DefaultMaxStrDigits == 4300

(* timeout=10 of requests.get *)
TIMEOUT == 10

None == [none |-> TRUE]

Rep(c, n) == [i \in 1..n |-> c]

----------------------------------------------------------------------------
(* int(hour): server.py line 17 *)

WHITESPACE == {" "}
SIGNS == {"+", "-"}

DecimalValue ==
    [c \in {"0", "1", "2", "3", "4", "5", "6", "7", "8", "9", "u0663"} |->
        CASE c = "0" -> 0 [] c = "1" -> 1 [] c = "2" -> 2 [] c = "3" -> 3
          [] c = "4" -> 4 [] c = "5" -> 5 [] c = "6" -> 6 [] c = "7" -> 7
          [] c = "8" -> 8 [] c = "9" -> 9 [] c = "u0663" -> 3]

IsDigit(c) == c \in DOMAIN DecimalValue

(* str.strip as int() applies it: leading and trailing whitespace is skipped *)
Strip(s) ==
    LET n == Len(s)
        lead == Cardinality({i \in 1..n : \A j \in 1..i : s[j] \in WHITESPACE})
        trail == Cardinality({i \in 1..n : \A j \in i..n : s[j] \in WHITESPACE})
    IN  IF lead = n THEN <<>> ELSE SubSeq(s, lead + 1, n - trail)

(* digits with single underscores between them, nothing else *)
WellFormedDigits(t) ==
    /\ Len(t) > 0
    /\ \A i \in 1..Len(t) : IsDigit(t[i]) \/ t[i] = "_"
    /\ IsDigit(t[1]) /\ IsDigit(t[Len(t)])
    /\ \A i \in 1..(Len(t) - 1) : ~(t[i] = "_" /\ t[i + 1] = "_")

RECURSIVE Horner(_, _)
Horner(ds, acc) ==
    IF ds = <<>> THEN acc ELSE Horner(Tail(ds), acc * 10 + DecimalValue[Head(ds)])

Pow10(k) == Horner(Rep("0", k), 1)

(* The magnitude the digit string denotes.  Python integers are unbounded;  *)
(* a magnitude of more than SatDigits significant digits is clamped to      *)
(* 10^SatDigits, which every comparison made by the handler answers alike.  *)
Magnitude(ds) ==
    LET nz == {i \in 1..Len(ds) : DecimalValue[ds[i]] # 0}
    IN  IF nz = {} THEN 0
        ELSE IF Cardinality(nz) > SatDigits THEN Pow10(SatDigits)
        ELSE LET first == CHOOSE i \in nz : \A j \in nz : i <= j
             IN  IF Len(ds) - first + 1 > SatDigits THEN Pow10(SatDigits)
                 ELSE Horner(SubSeq(ds, first, Len(ds)), 0)

(* int(s) with the digit limit `limit`: [ok, val] or the ValueError raised *)
int(s, limit) ==
    LET core == Strip(s)
        signed == core # <<>> /\ core[1] \in SIGNS
        body == IF signed THEN Tail(core) ELSE core
        ds == SelectSeq(body, IsDigit)
    IN  IF ~WellFormedDigits(body)
          THEN [ok |-> FALSE, err |-> "invalid literal for int() with base 10"]
        ELSE IF limit > 0 /\ Len(ds) > limit
          THEN [ok |-> FALSE, err |-> "Exceeds the limit for integer string conversion"]
        ELSE [ok |-> TRUE,
              val |-> IF signed /\ core[1] = "-" THEN 0 - Magnitude(ds) ELSE Magnitude(ds)]

----------------------------------------------------------------------------
(* f"{hour_int:02d}" and the URL template: server.py lines 24-25 *)

ASCII_DIGITS == <<"0", "1", "2", "3", "4", "5", "6", "7", "8", "9">>

RECURSIVE DecimalDigits(_)
DecimalDigits(n) ==
    IF n < 10 THEN <<ASCII_DIGITS[n + 1]>>
    ELSE DecimalDigits(n \div 10) \o <<ASCII_DIGITS[(n % 10) + 1]>>

(* format(n, "d"): no padding *)
Format_d(n) ==
    (IF n < 0 THEN <<"-">> ELSE <<>>) \o DecimalDigits(IF n < 0 THEN 0 - n ELSE n)

(* format(n, "02d"): sign first, then zeros up to a total width of two *)
Format02d(n) ==
    LET sign == IF n < 0 THEN <<"-">> ELSE <<>>
        digits == DecimalDigits(IF n < 0 THEN 0 - n ELSE n)
        pad == 2 - Len(sign) - Len(digits)
    IN  sign \o Rep("0", IF pad > 0 THEN pad ELSE 0) \o digits

UpstreamUrl(h) ==
    <<"https://a.windbornesystems.com/treasure/">> \o Format02d(h) \o <<".json">>

----------------------------------------------------------------------------
(* requests.get(upstream_url, timeout=10) and raise_for_status():           *)
(* server.py lines 28-29                                                    *)

NetConditions == {"reachable", "unreachable", "stalled"}

UpstreamStatuses == {200, 204, 299, 304, 399, 400, 404, 500, 599}
UpstreamContents == {<<>>, <<"[", "]">>}
UpstreamContentTypes == {"application/json", "text/plain"}

(* statuses whose response carries no body (http.client reads none) *)
Bodyless == {204, 304}

(* the reason phrase the upstream sends with a status *)
Reason(status) ==
    CASE status = 400 -> <<"Bad Request">>
      [] status = 404 -> <<"Not Found">>
      [] status = 500 -> <<"Internal Server Error">>
      [] OTHER -> <<>>

RequestException(type, msg) ==
    [raised |-> TRUE, type |-> type, msg |-> msg,
     status_code |-> 0, content |-> <<>>, content_type |-> ""]

UpstreamResponse(status, content, ctype) ==
    [raised |-> FALSE, type |-> "", msg |-> <<>>,
     status_code |-> status, content |-> content, content_type |-> ctype]

(* what one call of requests.get can come back with, by upstream condition *)
requests_get(url, condition) ==
    CASE condition = "unreachable" ->
           {RequestException("ConnectionError",
                             <<"Max retries exceeded with url: ">> \o url)}
      [] condition = "stalled" ->
           {RequestException(t, <<"timed out. (timeout=">> \o DecimalDigits(TIMEOUT) \o <<")">>) :
                t \in {"ConnectTimeout", "ReadTimeout"}}
      [] condition = "reachable" ->
           {u \in {UpstreamResponse(st, c, ct) :
                        st \in UpstreamStatuses,
                        c \in UpstreamContents,
                        ct \in UpstreamContentTypes} :
                u.status_code \in Bodyless => u.content = <<>>}
             \cup {RequestException("TooManyRedirects", <<"Exceeded 30 redirects.">>)}

(* raise_for_status() that lets client errors through *)
raise_for_status_5xx_only(r, url) ==
    IF 500 <= r.status_code /\ r.status_code < 600
      THEN RequestException("HTTPError",
               DecimalDigits(r.status_code) \o <<" Server Error: ">>
                 \o Reason(r.status_code) \o <<" for url: ">> \o url)
    ELSE None

(* Response.raise_for_status(): the HTTPError it raises, or None *)
raise_for_status(r, url) ==
    IF 400 <= r.status_code /\ r.status_code < 500
      THEN RequestException("HTTPError",
               DecimalDigits(r.status_code) \o <<" Client Error: ">>
                 \o Reason(r.status_code) \o <<" for url: ">> \o url)
    ELSE IF 500 <= r.status_code /\ r.status_code < 600
      THEN RequestException("HTTPError",
               DecimalDigits(r.status_code) \o <<" Server Error: ">>
                 \o Reason(r.status_code) \o <<" for url: ">> \o url)
    ELSE None

(* str(e) of a RequestException *)
str(e) == e.msg

----------------------------------------------------------------------------
(* The responses the view functions build *)

NoHeaders == {}

(* jsonify(obj), status: a JSON body, no header beyond the content type *)
jsonify(obj, status) ==
    [status |-> status, mimetype |-> "application/json",
     body |-> [json |-> obj], headers |-> NoHeaders]

(* the range message returned for a segment that is no integer *)
NotAnIntegerResponse_range_text ==
    jsonify([error |-> "hour must be between 0 and 23"], 400)

(* server.py line 19 *)
NotAnIntegerResponse ==
    jsonify([error |-> "hour must be an integer between 0 and 23"], 400)

(* server.py line 22 *)
OutOfRangeResponse ==
    jsonify([error |-> "hour must be between 0 and 23"], 400)

(* the failure envelope without the description of the failure *)
UpstreamFailureResponse_no_details(e) ==
    jsonify([error |-> "Failed to fetch from WindBorne"], 502)

(* server.py line 31 *)
UpstreamFailureResponse(e) ==
    jsonify([error |-> "Failed to fetch from WindBorne", details |-> str(e)], 502)

(* the pass-through with Response's default status *)
PassThroughResponse_200(up) ==
    [status |-> 200, mimetype |-> "application/json",
     body |-> [bytes |-> up.content],
     headers |-> {<<"Access-Control-Allow-Origin", "*">>}]

(* server.py lines 33-39 *)
PassThroughResponse(up) ==
    [status |-> up.status_code, mimetype |-> "application/json",
     body |-> [bytes |-> up.content],
     headers |-> {<<"Access-Control-Allow-Origin", "*">>}]

(* server.py line 8: Flask wraps the returned str in a 200 response *)
HomeResponse ==
    [status |-> 200, mimetype |-> "text/html",
     body |-> [text |-> "Backend is running. Try /api/balloons/0"],
     headers |-> NoHeaders]

(* the range check without its lower end *)
InRange_upper_only(h) == h <= 23

(* server.py line 21 *)
InRange(h) == 0 <= h /\ h <= 23

----------------------------------------------------------------------------
(* Inputs: the <hour> converter matches any non-empty segment without a slash *)

Chars == {"0", "2", "5", "-", "+", "_", " ", "a", "u0663"}

ShortSegments == UNION {[1..n -> Chars] : n \in 1..MaxLen}

(* segments at the interpreter's digit limit and one digit past it *)
LongSegments ==
    { Rep("2", DefaultMaxStrDigits),
      Rep("2", DefaultMaxStrDigits + 1),
      <<"-">> \o Rep("2", DefaultMaxStrDigits),
      <<"-">> \o Rep("2", DefaultMaxStrDigits + 1),
      Rep("0", DefaultMaxStrDigits - 1) \o <<"5">>,
      Rep("0", DefaultMaxStrDigits) \o <<"5">> }

ConcurrentSegments == {<<"5">>, <<"2", "5">>, <<"a">>}

Routes == {"/", "/api/balloons/<hour>"}

----------------------------------------------------------------------------
(* The state machine *)

(* an assignment to a module-level name, shared by every request *)
Store_global(f, r, v) == [x \in DOMAIN f |-> v]

(* an assignment to a local of the view function handling request r *)
Store(f, r, v) == [f EXCEPT ![r] = v]

InitFor(R) ==
    /\ max_str_digits \in {0, DefaultMaxStrDigits}
    /\ net \in NetConditions
    /\ pc = [r \in R |-> "idle"]
    /\ route = [r \in R |-> None]
    /\ hour = [r \in R |-> None]
    /\ hour_int = [r \in R |-> None]
    /\ upstream_url = [r \in R |-> None]
    /\ upstream_response = [r \in R |-> None]
    /\ exc = [r \in R |-> None]
    /\ calls = [r \in R |-> <<>>]
    /\ response = [r \in R |-> None]

(* Flask matches the request against the two URL rules *)
Dispatch(r, segments) ==
    /\ pc[r] = "idle"
    /\ \E rt \in Routes :
         /\ route' = Store(route, r, rt)
         /\ IF rt = "/"
              THEN /\ pc' = Store(pc, r, "home")
                   /\ UNCHANGED hour
              ELSE /\ pc' = Store(pc, r, "validate")
                   /\ \E s \in segments : hour' = Store(hour, r, s)
    /\ UNCHANGED <<max_str_digits, net, hour_int, upstream_url,
                   upstream_response, exc, calls, response>>

(* a banner that first probes the upstream *)
home_probing_upstream(r) ==
    /\ pc[r] = "home"
    /\ LET url == UpstreamUrl(0)
       IN  /\ calls' = Store(calls, r, Append(calls[r], url))
           /\ \E got \in requests_get(url, net) :
                response' = Store(response, r,
                    IF got.raised THEN UpstreamFailureResponse(got) ELSE HomeResponse)
    /\ pc' = Store(pc, r, "done")
    /\ UNCHANGED <<max_str_digits, net, route, hour, hour_int, upstream_url,
                   upstream_response, exc>>

(* server.py lines 6-8 *)
home(r) ==
    /\ pc[r] = "home"
    /\ response' = Store(response, r, HomeResponse)
    /\ pc' = Store(pc, r, "done")
    /\ UNCHANGED <<max_str_digits, net, route, hour, hour_int, upstream_url,
                   upstream_response, exc, calls>>

(* server.py lines 16-22 *)
get_balloons_validate(r) ==
    /\ pc[r] = "validate"
    /\ LET parsed == int(hour[r], max_str_digits)
       IN  IF ~parsed.ok
             THEN /\ response' = Store(response, r, NotAnIntegerResponse)
                  /\ pc' = Store(pc, r, "done")
                  /\ UNCHANGED hour_int
           ELSE IF ~InRange(parsed.val)
             THEN /\ hour_int' = Store(hour_int, r, parsed.val)
                  /\ response' = Store(response, r, OutOfRangeResponse)
                  /\ pc' = Store(pc, r, "done")
           ELSE /\ hour_int' = Store(hour_int, r, parsed.val)
                /\ pc' = Store(pc, r, "fetch")
                /\ UNCHANGED response
    /\ UNCHANGED <<max_str_digits, net, route, hour, upstream_url,
                   upstream_response, exc, calls>>

(* a fetch that issues the GET again after a failure *)
get_balloons_fetch_retry(r) ==
    /\ pc[r] = "fetch"
    /\ LET url == UpstreamUrl(hour_int[r])
       IN  /\ upstream_url' = Store(upstream_url, r, url)
           /\ \E got \in requests_get(url, net) :
                IF got.raised
                  THEN /\ calls' = Store(calls, r, calls[r] \o <<url, url>>)
                       /\ exc' = Store(exc, r, got)
                       /\ response' = Store(response, r, UpstreamFailureResponse(got))
                       /\ pc' = Store(pc, r, "done")
                       /\ UNCHANGED upstream_response
                ELSE LET e == raise_for_status(got, url)
                     IN  /\ calls' = Store(calls, r, Append(calls[r], url))
                         /\ upstream_response' = Store(upstream_response, r, got)
                         /\ IF e # None
                              THEN /\ exc' = Store(exc, r, e)
                                   /\ response' = Store(response, r, UpstreamFailureResponse(e))
                                   /\ pc' = Store(pc, r, "done")
                              ELSE /\ pc' = Store(pc, r, "respond")
                                   /\ UNCHANGED <<exc, response>>
    /\ UNCHANGED <<max_str_digits, net, route, hour, hour_int>>

(* server.py lines 24-31 *)
get_balloons_fetch(r) ==
    /\ pc[r] = "fetch"
    /\ LET url == UpstreamUrl(hour_int[r])
       IN  /\ upstream_url' = Store(upstream_url, r, url)
           /\ calls' = Store(calls, r, Append(calls[r], url))
           /\ \E got \in requests_get(url, net) :
                IF got.raised
                  THEN /\ exc' = Store(exc, r, got)
                       /\ response' = Store(response, r, UpstreamFailureResponse(got))
                       /\ pc' = Store(pc, r, "done")
                       /\ UNCHANGED upstream_response
                ELSE LET e == raise_for_status(got, url)
                     IN  /\ upstream_response' = Store(upstream_response, r, got)
                         /\ IF e # None
                              THEN /\ exc' = Store(exc, r, e)
                                   /\ response' = Store(response, r, UpstreamFailureResponse(e))
                                   /\ pc' = Store(pc, r, "done")
                              ELSE /\ pc' = Store(pc, r, "respond")
                                   /\ UNCHANGED <<exc, response>>
    /\ UNCHANGED <<max_str_digits, net, route, hour, hour_int>>

(* server.py lines 33-39 *)
get_balloons_respond(r) ==
    /\ pc[r] = "respond"
    /\ response' = Store(response, r, PassThroughResponse(upstream_response[r]))
    /\ pc' = Store(pc, r, "done")
    /\ UNCHANGED <<max_str_digits, net, route, hour, hour_int, upstream_url,
                   upstream_response, exc, calls>>

Init == InitFor({1})

Next ==
    \/ \E r \in DOMAIN pc : Dispatch(r, ShortSegments)
    \/ \E r \in DOMAIN pc : Dispatch(r, LongSegments)
    \/ \E r \in DOMAIN pc : home(r)
    \/ \E r \in DOMAIN pc : get_balloons_validate(r)
    \/ \E r \in DOMAIN pc : get_balloons_fetch(r)
    \/ \E r \in DOMAIN pc : get_balloons_respond(r)

Spec == Init /\ [][Next]_vars

(* several requests in flight, interleaved at every step *)
InitConc == InitFor(1..NReq)

NextConc ==
    \/ \E r \in DOMAIN pc : Dispatch(r, ConcurrentSegments)
    \/ \E r \in DOMAIN pc : home(r)
    \/ \E r \in DOMAIN pc : get_balloons_validate(r)
    \/ \E r \in DOMAIN pc : get_balloons_fetch(r)
    \/ \E r \in DOMAIN pc : get_balloons_respond(r)

SpecConc == InitConc /\ [][NextConc]_vars

----------------------------------------------------------------------------
(* Properties *)

Requests == DOMAIN pc

OnApi(r) == pc[r] # "idle" /\ route[r] = "/api/balloons/<hour>"
OnHome(r) == pc[r] # "idle" /\ route[r] = "/"
ApiDone(r) == pc[r] = "done" /\ route[r] = "/api/balloons/<hour>"
HomeDone(r) == pc[r] = "done" /\ route[r] = "/"

CorsHeader == <<"Access-Control-Allow-Origin", "*">>

IsJson(resp) == "json" \in DOMAIN resp.body
IsBytes(resp) == "bytes" \in DOMAIN resp.body

(* the 502 envelope {"error": "Failed to fetch from WindBorne", "details": d} *)
IsFailureEnvelope(resp, d) ==
    /\ resp.status = 502
    /\ resp.mimetype = "application/json"
    /\ IsJson(resp)
    /\ DOMAIN resp.body.json = {"error", "details"}
    /\ resp.body.json.error = "Failed to fetch from WindBorne"
    /\ resp.body.json.details = d
    /\ Len(d) > 0

(* a 400 response whose JSON body is {"error": message} *)
IsValidationError(resp, message) ==
    /\ resp.status = 400
    /\ IsJson(resp)
    /\ resp.body = [json |-> [error |-> message]]

GotUpstreamResponse(r) == upstream_response[r] # None
Caught(r) == exc[r] # None

(* C1: every response of get_balloons, on the 400, the 502 and the          *)
(* pass-through path alike, carries Access-Control-Allow-Origin: *.         *)
C1_CorsOnEveryResponse ==
    \A r \in Requests : ApiDone(r) => CorsHeader \in response[r].headers

C3_UnparseableHour ==
    \A r \in Requests :
        (OnApi(r) /\ ~int(hour[r], max_str_digits).ok) =>
            /\ calls[r] = <<>>
            /\ pc[r] \in {"validate", "done"}
            /\ pc[r] = "done" =>
                 IsValidationError(response[r], "hour must be an integer between 0 and 23")

C3_Witness ==
    \E r \in Requests :
        /\ ApiDone(r)
        /\ hour[r] = <<"2", "_", "_">>
        /\ response[r].status = 400

AsciiDigit(c) == \E i \in 1..10 : ASCII_DIGITS[i] = c

(* s is str(h), the decimal text of an integer h: ASCII digits without     *)
(* leading zeros, a minus sign in front of a negative one                   *)
DecimalTextDigits(s) == IF s # <<>> /\ s[1] = "-" THEN Tail(s) ELSE s

IsDecimalText(s) ==
    LET ds == DecimalTextDigits(s)
    IN  /\ ds # <<>>
        /\ \A i \in 1..Len(ds) : AsciiDigit(ds[i])
        /\ Len(ds) > 1 => ds[1] # "0"
        /\ s[1] = "-" => ds # <<"0">>

(* s is the decimal text of an integer below 0 or above 23 *)
IsOutOfRangeText(s) ==
    /\ IsDecimalText(s)
    /\ \/ s[1] = "-"
       \/ Len(s) > 2
       \/ Len(s) = 2 /\ (DecimalValue[s[1]] > 2 \/ (s[1] = "2" /\ DecimalValue[s[2]] > 3))

WithinDigitLimit(s) ==
    max_str_digits = 0 \/ Len(DecimalTextDigits(s)) <= max_str_digits

(* C4 as stated: the decimal text of every integer outside 0..23 gets the   *)
(* 400 range message, and no upstream request is made.                      *)
C4_OutOfRangeHour ==
    \A r \in Requests :
        (ApiDone(r) /\ IsOutOfRangeText(hour[r])) =>
            /\ IsValidationError(response[r], "hour must be between 0 and 23")
            /\ calls[r] = <<>>

(* C4 amended: the decimal text of an integer outside 0..23 gets the 400    *)
(* range message when it is no longer than the interpreter's limit on the   *)
(* digits of an integer string (4300 by default, 0 for none); a longer one  *)
(* makes int() raise ValueError and gets the not-an-integer message.  No    *)
(* upstream request is made in either case.                                 *)
C4_OutOfRangeHourWithinLimit ==
    \A r \in Requests :
        (OnApi(r) /\ IsOutOfRangeText(hour[r])) =>
            /\ calls[r] = <<>>
            /\ pc[r] \in {"validate", "done"}
            /\ pc[r] = "done" =>
                 IF WithinDigitLimit(hour[r])
                   THEN IsValidationError(response[r], "hour must be between 0 and 23")
                   ELSE IsValidationError(response[r],
                            "hour must be an integer between 0 and 23")

C4_Witness ==
    \E r \in Requests :
        /\ ApiDone(r)
        /\ max_str_digits = DefaultMaxStrDigits
        /\ hour[r] = <<"-">> \o Rep("2", DefaultMaxStrDigits)
        /\ IsValidationError(response[r], "hour must be between 0 and 23")

(* the URL for hour h: the template with the tens and the units digit of h *)
TwoDigitUrl(h) ==
    <<"https://a.windbornesystems.com/treasure/",
      ASCII_DIGITS[(h \div 10) + 1], ASCII_DIGITS[(h % 10) + 1], ".json">>

(* distinct hours of 0..23 get distinct URLs, each the two-digit one *)
UrlsAreInjective ==
    /\ \A h \in 0..23 : UpstreamUrl(h) = TwoDigitUrl(h)
    /\ \A h1, h2 \in 0..23 : UpstreamUrl(h1) = UpstreamUrl(h2) => h1 = h2

(* C5: the URL requested for a validated hour h is the template with h as   *)
(* exactly two decimal digits; distinct hours get distinct URLs, and the    *)
(* URL depends on the segment only through h.                               *)
C5_UpstreamUrl ==
    /\ \A r \in Requests :
         (OnApi(r) /\ calls[r] # <<>>) =>
            /\ InRange(hour_int[r])
            /\ hour_int[r] = int(hour[r], max_str_digits).val
            /\ \A i \in 1..Len(calls[r]) : calls[r][i] = TwoDigitUrl(hour_int[r])
    /\ UrlsAreInjective

C5_Witness ==
    \E r \in Requests :
        /\ OnApi(r)
        /\ hour[r] = <<" ", "+", "5">>
        /\ calls[r] = <<TwoDigitUrl(5)>>

(* C6: a 2xx upstream response is passed through with the upstream's       *)
(* status and bytes, declared application/json whatever the upstream said.  *)
C6_PassThrough ==
    \A r \in Requests :
        (ApiDone(r) /\ GotUpstreamResponse(r)
            /\ upstream_response[r].status_code \in 200..299) =>
            /\ response[r].status = upstream_response[r].status_code
            /\ response[r].body = [bytes |-> upstream_response[r].content]
            /\ response[r].mimetype = "application/json"

C6_Witness ==
    \E r \in Requests :
        /\ ApiDone(r) /\ GotUpstreamResponse(r)
        /\ upstream_response[r].status_code = 299
        /\ upstream_response[r].content_type = "text/plain"
        /\ upstream_response[r].content = <<"[", "]">>
        /\ response[r].status = 299

(* C7: when requests.get raises a RequestException the response is 502 and  *)
(* its JSON body has exactly the fields error and details, details being    *)
(* the non-empty text of the exception.                                     *)
C7_NetworkFailure ==
    \A r \in Requests :
        (ApiDone(r) /\ Caught(r)) => IsFailureEnvelope(response[r], exc[r].msg)

C7_Witness ==
    \E r \in Requests :
        /\ ApiDone(r) /\ Caught(r)
        /\ exc[r].type = "ReadTimeout"
        /\ response[r].status = 502

(* the three ways a request to get_balloons ends *)
EndsIn400(r) ==
    /\ response[r].status = 400
    /\ ~GotUpstreamResponse(r) /\ ~Caught(r)

EndsIn502(r) ==
    /\ response[r].status = 502 /\ IsJson(response[r])
    /\ Caught(r)

EndsInPassThrough(r) ==
    /\ IsBytes(response[r])
    /\ GotUpstreamResponse(r) /\ ~Caught(r)

HourIsValid(r) ==
    /\ int(hour[r], max_str_digits).ok
    /\ InRange(int(hour[r], max_str_digits).val)

(* C8: a request is one pass Validate -> Fetch -> Respond.  The GET is      *)
(* issued only once validation has succeeded, once for a valid hour and     *)
(* never for an invalid one, it is not issued again after a failure, and    *)
(* the request ends in exactly one of the three outcomes.                   *)
C8_LinearPass ==
    \A r \in Requests :
        OnApi(r) =>
            /\ Len(calls[r]) <= 1
            /\ calls[r] # <<>> => (HourIsValid(r) /\ pc[r] \in {"respond", "done"})
            /\ pc[r] \in {"validate", "fetch"} => calls[r] = <<>>
            /\ pc[r] = "fetch" => HourIsValid(r)
            /\ pc[r] = "respond" => (GotUpstreamResponse(r) /\ ~Caught(r))
            /\ pc[r] # "done" => response[r] = None
            /\ pc[r] = "done" =>
                 /\ Len(calls[r]) = (IF HourIsValid(r) THEN 1 ELSE 0)
                 /\ EndsIn400(r) \/ EndsIn502(r) \/ EndsInPassThrough(r)
                 /\ ~(EndsIn400(r) /\ EndsIn502(r))
                 /\ ~(EndsIn400(r) /\ EndsInPassThrough(r))
                 /\ ~(EndsIn502(r) /\ EndsInPassThrough(r))
                 /\ EndsIn400(r) <=> ~HourIsValid(r)

C8_Witness ==
    \E r \in Requests :
        /\ ApiDone(r)
        /\ EndsIn502(r)
        /\ exc[r].type = "ConnectionError"
        /\ Len(calls[r]) = 1

(* C9: GET / answers 200 with the non-empty banner text and makes no        *)
(* upstream request, whatever the condition of the upstream.                *)
C9_Home ==
    \A r \in Requests :
        /\ OnHome(r) => calls[r] = <<>>
        /\ HomeDone(r) =>
             /\ response[r].status = 200
             /\ response[r].body = [text |-> "Backend is running. Try /api/balloons/0"]
             /\ response[r].body.text # ""

C9_Witness ==
    \E r \in Requests :
        /\ HomeDone(r)
        /\ net = "unreachable"
        /\ response[r].status = 200

(* the response request r gets when it is the only request: a function of  *)
(* its own route and segment and of the result of its own upstream call     *)
ResponseAlone(r) ==
    IF route[r] = "/" THEN HomeResponse
    ELSE LET parsed == int(hour[r], max_str_digits)
         IN  IF ~parsed.ok
               THEN jsonify([error |-> "hour must be an integer between 0 and 23"], 400)
             ELSE IF ~(0 <= parsed.val /\ parsed.val <= 23)
               THEN jsonify([error |-> "hour must be between 0 and 23"], 400)
             ELSE IF Caught(r)
               THEN jsonify([error |-> "Failed to fetch from WindBorne",
                             details |-> exc[r].msg], 502)
             ELSE [status |-> upstream_response[r].status_code,
                   mimetype |-> "application/json",
                   body |-> [bytes |-> upstream_response[r].content],
                   headers |-> {CorsHeader}]

(* the result of request r's upstream call is one its own URL can produce *)
OwnUpstreamResult(r) ==
    LET url == TwoDigitUrl(int(hour[r], max_str_digits).val)
    IN  /\ calls[r] = <<url>>
        /\ upstream_url[r] = url
        /\ IF GotUpstreamResponse(r)
             THEN /\ upstream_response[r] \in requests_get(url, net)
                  /\ exc[r] = raise_for_status(upstream_response[r], url)
             ELSE exc[r] \in requests_get(url, net)

LocalsOf(r) ==
    <<pc[r], route[r], hour[r], hour_int[r], upstream_url[r],
      upstream_response[r], exc[r], calls[r], response[r]>>

C10_Independent ==
    \A r \in Requests :
        /\ (OnApi(r) /\ calls[r] # <<>>) => OwnUpstreamResult(r)
        /\ pc[r] = "done" => response[r] = ResponseAlone(r)

C10_OneRequestPerStep ==
    \A r, q \in Requests :
        (r # q /\ LocalsOf(r)' # LocalsOf(r)) => LocalsOf(q)' = LocalsOf(q)

(* C10: requests in flight together are independent.  Each response is the  *)
(* one the request would get alone, fixed by its own segment and the result *)
(* of its own upstream call, and a step of one request changes nothing      *)
(* that belongs to another.                                                 *)
C10_ConcurrentRequests == [](C10_Independent) /\ [][C10_OneRequestPerStep]_vars

C10_Witness ==
    \E r, q \in Requests :
        /\ r # q
        /\ ApiDone(r) /\ ApiDone(q)
        /\ hour[r] = <<"5">> /\ hour[q] = <<"2", "5">>
        /\ response[r].status = 200
        /\ response[q].status = 400

====
